---- MODULE Spec2Model ----
(***************************************************************************)
(* Model of lb9(2).py: the PairModel / HistoricalData record validators,   *)
(* the exchange client (get_pairs, get_products, get_historical_data), the *)
(* DataFrame assembly and the module-level orchestrator loop.              *)
(*                                                                         *)
(* Strings are sequences over four character classes:                      *)
(*   "A" an uppercase letter, "a" a lowercase letter, "1" a digit,         *)
(*   "_" a character that is neither alphanumeric nor cased.               *)
(***************************************************************************)
EXTENDS Integers, Sequences, FiniteSets, TLC

VARIABLES
    rec, presult,                       \* PairModel construction
    response, pairs_result, products_result,   \* exchangeInfo listing
    kresponse, kresult, series,         \* klines fetch and assembly
    now, tz, pc, product, window,       \* orchestrator
    end_time, start_time, historical_data, df, outstanding, events

vars == <<rec, presult, response, pairs_result, products_result,
          kresponse, kresult, series, now, tz, pc, product, window,
          end_time, start_time, historical_data, df, outstanding, events>>

pairVars == <<rec, presult>>
listVars == <<response, pairs_result, products_result>>
klineVars == <<kresponse, kresult, series>>
orchVars == <<now, tz, pc, product, window, end_time, start_time,
              historical_data, df, outstanding, events>>

(***************************************************************************)
(* Bounds of the model.                                                    *)
(***************************************************************************)
MaxSymbolLen == 7
MaxAssetLen == 11
MaxRecords == 2
MaxCandles == 2

(***************************************************************************)
(* Strings.                                                                *)
(***************************************************************************)
Chars == {"A", "a", "1", "_"}

\* A string of length n: first character c, the remaining ones d.
Str(n, c, d) == [i \in 1..n |-> IF i = 1 THEN c ELSE d]

StringsOfLen(n) == {Str(n, c, d) : c \in Chars, d \in Chars}

\* str.isalnum(): non-empty and every character a letter or a digit.
isalnum(v) == Len(v) > 0 /\ \A i \in 1..Len(v) : v[i] \in {"A", "a", "1"}

\* str.isupper(): at least one cased character and no lowercase one.
isupper(v) ==
    /\ \E i \in 1..Len(v) : v[i] = "A"
    /\ \A i \in 1..Len(v) : v[i] # "a"

(***************************************************************************)
(* PairModel (pydantic).  A field is validated by its constr() type first  *)
(* and then by its @validator functions in definition order; the first     *)
(* error of a field ends that field's chain.  The model validates every    *)
(* field and raises one ValidationError holding the errors of all failing  *)
(* fields, in field order.                                                 *)
(***************************************************************************)
symbol_min_length == 6
symbol_max_length == 6
asset_max_length == 10

Valid(v) == [ok |-> TRUE, value |-> v, msg |-> "none"]
Invalid(v, m) == [ok |-> FALSE, value |-> v, msg |-> m]

constr(v, min_length, max_length) ==
    IF Len(v) < min_length THEN Invalid(v, "min_length")
    ELSE IF Len(v) > max_length THEN Invalid(v, "max_length")
    ELSE Valid(v)

validate_symbol_length(v) ==
    IF Len(v) # 6 THEN Invalid(v, "Symbol length must be 6 characters")
    ELSE Valid(v)

validate_asset_case_noop(v) == Valid(v)

validate_asset_case(v) ==
    IF ~isupper(v) THEN Invalid(v, "Asset symbols must be uppercase")
    ELSE Valid(v)

validate_symbol_format(v) ==
    IF ~isalnum(v)
    THEN Invalid(v, "Symbol must contain only alphanumeric characters")
    ELSE Valid(v)

\* The validator chain of field symbol: constr, then the two validators
\* registered for 'symbol' in definition order.
validate_symbol(v) ==
    LET r1 == constr(v, symbol_min_length, symbol_max_length) IN
    IF ~r1.ok THEN r1
    ELSE LET r2 == validate_symbol_length(r1.value) IN
         IF ~r2.ok THEN r2 ELSE validate_symbol_format(r2.value)

\* The validator chain of base_asset and of quote_asset.
validate_asset(v) ==
    LET r1 == constr(v, 0, asset_max_length) IN
    IF ~r1.ok THEN r1 ELSE validate_asset_case(r1.value)

FieldError(loc, r) == IF r.ok THEN <<>> ELSE <<[loc |-> loc, msg |-> r.msg]>>

\* validate_model stopping at the first failing field.
CollectErrorsFirstOnly(rs, rb, rq) ==
    IF ~rs.ok THEN FieldError("symbol", rs)
    ELSE IF ~rb.ok THEN FieldError("base_asset", rb)
    ELSE FieldError("quote_asset", rq)

\* validate_model: every field is validated, the errors are collected.
CollectErrors(rs, rb, rq) ==
    FieldError("symbol", rs) \o FieldError("base_asset", rb)
        \o FieldError("quote_asset", rq)

PairModel(symbol, base_asset, quote_asset) ==
    LET rs == validate_symbol(symbol)
        rb == validate_asset(base_asset)
        rq == validate_asset(quote_asset)
        errors == CollectErrors(rs, rb, rq)
    IN  IF errors # <<>>
        THEN [kind |-> "ValidationError", errors |-> errors]
        ELSE [kind |-> "PairModel", symbol |-> rs.value,
              base_asset |-> rb.value, quote_asset |-> rq.value]

(***************************************************************************)
(* Inputs of PairModel construction.                                       *)
(***************************************************************************)
SymbolStrings ==
    UNION {StringsOfLen(n) : n \in (symbol_min_length - 1)..MaxSymbolLen}

AssetStrings ==
    UNION {StringsOfLen(n) : n \in {0, 1} \cup (asset_max_length..MaxAssetLen)}

Records ==
    [symbol : SymbolStrings, baseAsset : AssetStrings, quoteAsset : AssetStrings]

NotRun == [kind |-> "NotRun"]

(***************************************************************************)
(* Exchange client: the exchangeInfo listing.  A response is either a      *)
(* transport failure or the decoded JSON object; the records of            *)
(* data['symbols'] carry the three string fields the client reads.         *)
(***************************************************************************)
ConnectionError == [kind |-> "ConnectionError"]

Json(body) == [kind |-> "json", body |-> body]

RECURSIVE get_pairs_loop_skipping(_, _, _)
\* The loop of get_pairs skipping the records that fail validation.
get_pairs_loop_skipping(symbols, i, pairs) ==
    IF i > Len(symbols) THEN [kind |-> "pairs", pairs |-> pairs]
    ELSE LET pair_data == symbols[i]
             p == PairModel(pair_data.symbol, pair_data.baseAsset,
                            pair_data.quoteAsset)
         IN  IF p.kind = "ValidationError"
             THEN get_pairs_loop_skipping(symbols, i + 1, pairs)
             ELSE get_pairs_loop_skipping(symbols, i + 1, Append(pairs, p))

RECURSIVE get_pairs_loop(_, _, _)
\* The loop of get_pairs over data['symbols'][i..], pairs collected so far.
get_pairs_loop(symbols, i, pairs) ==
    IF i > Len(symbols) THEN [kind |-> "pairs", pairs |-> pairs]
    ELSE LET pair_data == symbols[i]
             p == PairModel(pair_data.symbol, pair_data.baseAsset,
                            pair_data.quoteAsset)
         IN  IF p.kind = "ValidationError"
             THEN [kind |-> "ValidationError", at |-> i, errors |-> p.errors]
             ELSE get_pairs_loop(symbols, i + 1, Append(pairs, p))

get_pairs(resp) ==
    IF resp.kind = "ConnectionError" THEN ConnectionError
    ELSE get_pairs_loop(resp.body, 1, <<>>)

\* get_products projecting the wrong field of each record.
get_products_base(resp) ==
    IF resp.kind = "ConnectionError" THEN ConnectionError
    ELSE [kind |-> "DataFrame",
          Product |-> [i \in 1..Len(resp.body) |-> resp.body[i].baseAsset]]

\* get_products: the 'symbol' of every record, no validation, as the one
\* column 'Product' of a DataFrame.
get_products(resp) ==
    IF resp.kind = "ConnectionError" THEN ConnectionError
    ELSE [kind |-> "DataFrame",
          Product |-> [i \in 1..Len(resp.body) |-> resp.body[i].symbol]]

SeqsUpTo(S, n) == UNION {[1..k -> S] : k \in 0..n}

ListingRecords ==
    [symbol : {Str(symbol_min_length, "A", "A"), Str(symbol_min_length, "1", "A"),
               Str(symbol_min_length, "A", "_"), Str(MaxSymbolLen, "A", "A")},
     baseAsset : {Str(1, "A", "A"), Str(1, "a", "a")},
     quoteAsset : {Str(asset_max_length, "A", "1")}]

ListingResponses ==
    {ConnectionError} \cup {Json(b) : b \in SeqsUpTo(ListingRecords, MaxRecords)}

(***************************************************************************)
(* Exchange client: klines.  A JSON scalar of a kline element is a number  *)
(* (t = "num"), a string spelling the number v (t = "str") or a string     *)
(* that spells no number (t = "text").                                     *)
(***************************************************************************)
Num(n) == [t |-> "num", v |-> n]
StrNum(n) == [t |-> "str", v |-> n]
Text == [t |-> "text", v |-> 0]

FieldNames ==
    <<"open_time", "open", "high", "low", "close", "volume", "close_time",
      "quote_asset_volume", "num_trades", "taker_buy_base_asset_volume",
      "taker_buy_quote_asset_volume", "ignore">>

\* 1-based positions of the fields declared int in HistoricalData; these are
\* passed to the constructor as they come, the others through float().
IntPositions == {1, 7, 9}

\* float(x) of a JSON scalar.
float(x) ==
    IF x.t = "text" THEN [ok |-> FALSE, value |-> 0, msg |-> "ValueError"]
    ELSE [ok |-> TRUE, value |-> x.v, msg |-> "none"]

\* pydantic's coercion of an int field.
int_validator(x) ==
    IF x.t = "text" THEN [ok |-> FALSE, value |-> 0, msg |-> "value is not a valid integer"]
    ELSE [ok |-> TRUE, value |-> x.v, msg |-> "none"]

\* The evaluation of the constructor argument at 1-based position p.
Argument(candle, p) ==
    IF p > Len(candle) THEN [ok |-> FALSE, value |-> Text, msg |-> "IndexError"]
    ELSE IF p \in IntPositions THEN [ok |-> TRUE, value |-> candle[p], msg |-> "none"]
    ELSE LET f == float(candle[p]) IN
         [ok |-> f.ok, value |-> Num(f.value), msg |-> f.msg]

\* The constructor arguments taken from the wrong positions (open and high
\* exchanged).
ArgPositionSwapped(p) == IF p = 2 THEN 3 ELSE IF p = 3 THEN 2 ELSE p

\* The element position the keyword argument of field p is read from.
ArgPosition(p) == p

\* HistoricalData(open_time=candle[0], open=float(candle[1]), ...): the
\* arguments are evaluated left to right, the first failing one raises; then
\* the model validates its int fields.
HistoricalData(candle) ==
    LET args == [p \in 1..12 |-> Argument(candle, ArgPosition(p))]
        failing == {p \in 1..12 : ~args[p].ok}
        ints == [p \in IntPositions |-> int_validator(args[p].value)]
        badints == {p \in IntPositions : ~ints[p].ok}
    IN  IF failing # {}
        THEN LET p == CHOOSE q \in failing : \A r \in failing : q <= r
             IN  [kind |-> args[p].msg, position |-> p]
        ELSE IF badints # {}
        THEN [kind |-> "ValidationError", fields |-> {FieldNames[p] : p \in badints}]
        ELSE [kind |-> "HistoricalData",
              fields |-> [p \in 1..12 |->
                            IF p \in IntPositions THEN ints[p].value
                            ELSE args[p].value.v]]

RECURSIVE get_historical_data_loop(_, _, _)
get_historical_data_loop(data, i, historical) ==
    IF i > Len(data) THEN [kind |-> "candles", candles |-> historical]
    ELSE LET c == HistoricalData(data[i]) IN
         IF c.kind # "HistoricalData"
         THEN [kind |-> c.kind, at |-> i]
         ELSE get_historical_data_loop(data, i + 1, Append(historical, c))

get_historical_data(resp) ==
    IF resp.kind = "ConnectionError" THEN [kind |-> "ConnectionError", at |-> 0]
    ELSE get_historical_data_loop(resp.body, 1, <<>>)

\* A well-formed kline element: position p holds the number 100*k + p, as a
\* JSON number at the int positions and as a string elsewhere.
GoodElement(k) ==
    [p \in 1..12 |-> IF p \in IntPositions THEN Num(100 * k + p)
                     ELSE StrNum(100 * k + p)]

BadElement(k, q) == [p \in 1..12 |-> IF p = q THEN Text ELSE GoodElement(k)[p]]

ShortElement(k) == SubSeq(GoodElement(k), 1, 11)

NumericElement(k) == [p \in 1..12 |-> Num(100 * k + p)]

KlineElements ==
    {GoodElement(1), GoodElement(2), NumericElement(1), ShortElement(1)}
        \cup {BadElement(1, q) : q \in 1..12}

KlineResponses ==
    {ConnectionError} \cup {Json(b) : b \in SeqsUpTo(KlineElements, MaxCandles)}

(***************************************************************************)
(* Assembly of a candle list into a time-indexed DataFrame.                *)
(***************************************************************************)
NsPerMs == 1000000

\* pd.to_datetime(ms, unit='ms'): a Timestamp, held as nanoseconds.
to_datetime(ms) == [kind |-> "Timestamp", ns |-> ms * NsPerMs]

\* pd.DataFrame([candle.dict() for candle in candles]): the columns are the
\* keys of the row dicts, so a frame built from no rows has no columns.
DataFrame(candles) ==
    [kind |-> "DataFrame",
     columns |-> IF candles = <<>> THEN {} ELSE {FieldNames[p] : p \in 1..12},
     rows |-> candles,
     index |-> [i \in 1..Len(candles) |-> i - 1]]

\* frame.index = pd.to_datetime(frame['open_time'], unit='ms')
BuildSeries(candles) ==
    LET frame == DataFrame(candles) IN
    IF "open_time" \notin frame.columns
    THEN [kind |-> "KeyError", key |-> "open_time"]
    ELSE [frame EXCEPT !.index =
            [i \in 1..Len(candles) |-> to_datetime(candles[i].fields[1])]]

(***************************************************************************)
(* Time.  A naive datetime is a wall-clock reading: whole seconds and      *)
(* microseconds.  datetime.timestamp() reads a naive datetime as local     *)
(* time, so the epoch value is the wall-clock value less the UTC offset    *)
(* the local zone has at that wall-clock time.  Two zones are modelled:    *)
(* one with a fixed offset and one whose offset changes at TransitionWall. *)
(* Milliseconds since the epoch exceed the checker's integers, so a        *)
(* product n * 1000 is held as the pair (seconds n, millis 0).             *)
(***************************************************************************)
SecondsPerDay == 86400
StdOffset == 7200
DstOffset == 10800
TransitionWall == 500 * SecondsPerDay

TimeZones == {"UTC", "Europe/Kyiv"}

utcoffset(zone, dt) ==
    IF zone = "UTC" THEN 0
    ELSE IF dt.sec < TransitionWall THEN StdOffset ELSE DstOffset

\* dt - timedelta(days=n) on a naive datetime: wall-clock arithmetic.
minus_days(dt, n) == [sec |-> dt.sec - n * SecondsPerDay, usec |-> dt.usec]

\* dt.timestamp(): seconds since the epoch with a fractional part.
timestamp(zone, dt) == [sec |-> dt.sec - utcoffset(zone, dt), usec |-> dt.usec]

\* int(x) of a non-negative float: the fractional part is dropped.
int(ts) == ts.sec

\* n * 1000
times1000(n) == [seconds |-> n, millis |-> 0]

NowChoices ==
    {[sec |-> TransitionWall + d * SecondsPerDay + SecondsPerDay \div 2, usec |-> u] :
        d \in {-1, 0, 10, 100, 400}, u \in {0, 999999}}

(***************************************************************************)
(* Orchestrator: the module-level script.                                  *)
(***************************************************************************)
selected_products_swapped == <<"ETHUSDT", "BTCUSDT", "LTCUSDT">>

selected_products == <<"BTCUSDT", "ETHUSDT", "LTCUSDT">>

Windows == <<"day", "month", "year">>

\* timedelta(days=...) of the three windows.
WindowDays == <<1, 30, 365>>

interval == "1d"

Event(type, symbol, w, startTime, endTime) ==
    [type |-> type, symbol |-> symbol, window |-> w,
     startTime |-> startTime, endTime |-> endTime]

NoTime == times1000(0)

NoDatetime == [sec |-> 0, usec |-> 0]

ProductsResponses ==
    {ConnectionError, Json(<<>>)}
        \cup {Json(<<r>>) : r \in {q \in ListingRecords : q.baseAsset = Str(1, "A", "A")
                                        /\ Len(q.symbol) # symbol_min_length}}

OrchResponses ==
    {ConnectionError, Json(<<>>), Json(<<GoodElement(1)>>),
     Json(<<GoodElement(1), GoodElement(2)>>), Json(<<BadElement(1, 2)>>)}

\* lines 137-139: the product listing.
GetProducts ==
    /\ pc = "products"
    /\ \E resp \in ProductsResponses :
         LET r == get_products(resp) IN
         /\ products_result' = r
         /\ events' = Append(events, Event("products", "", "", NoTime, NoTime))
         /\ pc' = IF r.kind = "DataFrame" THEN "windows" ELSE "aborted"
    /\ UNCHANGED <<now, tz, product, window, end_time, start_time,
                   historical_data, df, outstanding>>
    /\ UNCHANGED <<pairVars, response, pairs_result, klineVars>>

\* lines 141-147: end_time = datetime.now() and the three start times.
ComputeWindows ==
    /\ pc = "windows"
    /\ end_time' = now
    /\ start_time' = [w \in 1..3 |-> minus_days(now, WindowDays[w])]
    /\ product' = 1
    /\ window' = 1
    /\ pc' = "fetch"
    /\ UNCHANGED <<now, tz, historical_data, df, outstanding, events>>
    /\ UNCHANGED <<pairVars, listVars, klineVars>>

\* lines 153/159/165: the GET of get_historical_data is issued.
SendRequest ==
    /\ pc = "fetch"
    /\ outstanding' = outstanding + 1
    /\ events' = Append(events,
         Event("fetch", selected_products[product], Windows[window],
               times1000(int(timestamp(tz, start_time[window]))),
               times1000(int(timestamp(tz, end_time)))))
    /\ pc' = "recv"
    /\ UNCHANGED <<now, tz, product, window, end_time, start_time,
                   historical_data, df>>
    /\ UNCHANGED <<pairVars, listVars, klineVars>>

\* lines 106-124: the response arrives and is parsed; an exception leaves
\* the script.
ReceiveResponse ==
    /\ pc = "recv"
    /\ \E resp \in OrchResponses :
         LET r == get_historical_data(resp) IN
         /\ outstanding' = outstanding - 1
         /\ IF r.kind = "candles"
            THEN /\ historical_data' = [historical_data EXCEPT ![window] = r.candles]
                 /\ pc' = "assemble"
            ELSE /\ pc' = "aborted"
                 /\ UNCHANGED historical_data
    /\ UNCHANGED <<now, tz, product, window, end_time, start_time, df, events>>
    /\ UNCHANGED <<pairVars, listVars, klineVars>>

\* lines 154-156 (160-162, 166-168): the DataFrame of the window.
Assemble ==
    /\ pc = "assemble"
    /\ LET frame == BuildSeries(historical_data[window]) IN
       IF frame.kind = "DataFrame"
       THEN /\ df' = [df EXCEPT ![window] = frame]
            /\ events' = Append(events,
                 Event("assemble", selected_products[product], Windows[window],
                       NoTime, NoTime))
            /\ IF window < 3
               THEN window' = window + 1 /\ pc' = "fetch"
               ELSE window' = 1 /\ pc' = "render"
       ELSE /\ pc' = "aborted"
            /\ UNCHANGED <<df, events, window>>
    /\ UNCHANGED <<now, tz, product, end_time, start_time, historical_data,
                   outstanding>>
    /\ UNCHANGED <<pairVars, listVars, klineVars>>

\* lines 172-179: plot_candlestick of the window's frame; mpf.plot may raise.
Render ==
    /\ pc = "render"
    /\ \E drawn \in BOOLEAN :
         IF drawn
         THEN /\ events' = Append(events,
                   Event("render", selected_products[product], Windows[window],
                         NoTime, NoTime))
              /\ IF window < 3
                 THEN window' = window + 1 /\ pc' = "render" /\ UNCHANGED product
                 ELSE IF product < Len(selected_products)
                 THEN window' = 1 /\ product' = product + 1 /\ pc' = "fetch"
                 ELSE pc' = "done" /\ UNCHANGED <<window, product>>
         ELSE /\ pc' = "aborted"
              /\ UNCHANGED <<events, window, product>>
    /\ UNCHANGED <<now, tz, end_time, start_time, historical_data, df,
                   outstanding>>
    /\ UNCHANGED <<pairVars, listVars, klineVars>>

IdlePair == rec = NotRun /\ presult = NotRun

IdleListing == response = NotRun /\ pairs_result = NotRun /\ products_result = NotRun

IdleKlines == kresponse = NotRun /\ kresult = NotRun /\ series = NotRun

IdleOrch ==
    /\ now = NoDatetime /\ tz = "UTC" /\ pc = "idle" /\ product = 0 /\ window = 0
    /\ end_time = NoDatetime /\ start_time = <<>> /\ historical_data = <<>>
    /\ df = <<>> /\ outstanding = 0 /\ events = <<>>

Init ==
    /\ IdlePair /\ IdleListing /\ IdleKlines
    /\ now \in NowChoices
    /\ tz \in TimeZones
    /\ pc = "products"
    /\ product = 0
    /\ window = 0
    /\ end_time = NoDatetime
    /\ start_time = [w \in 1..3 |-> NoDatetime]
    /\ historical_data = [w \in 1..3 |-> <<>>]
    /\ df = [w \in 1..3 |-> NotRun]
    /\ outstanding = 0
    /\ events = <<>>

Next ==
    \/ GetProducts
    \/ ComputeWindows
    \/ SendRequest
    \/ ReceiveResponse
    \/ Assemble
    \/ Render

Spec == Init /\ [][Next]_vars

(***************************************************************************)
(* PairModel construction over every input record.                         *)
(***************************************************************************)
Construct ==
    /\ presult = NotRun
    /\ presult' = PairModel(rec.symbol, rec.baseAsset, rec.quoteAsset)
    /\ UNCHANGED <<rec, listVars, klineVars, orchVars>>

InitPair ==
    /\ rec \in Records
    /\ presult = NotRun
    /\ IdleListing /\ IdleKlines /\ IdleOrch

NextPair == Construct

SpecPair == InitPair /\ [][NextPair]_vars

(***************************************************************************)
(* The two listing operations on one exchangeInfo response.                *)
(***************************************************************************)
CallGetPairs ==
    /\ pairs_result = NotRun
    /\ pairs_result' = get_pairs(response)
    /\ UNCHANGED <<response, products_result, pairVars, klineVars, orchVars>>

CallGetProducts ==
    /\ products_result = NotRun
    /\ products_result' = get_products(response)
    /\ UNCHANGED <<response, pairs_result, pairVars, klineVars, orchVars>>

InitListing ==
    /\ response \in ListingResponses
    /\ pairs_result = NotRun
    /\ products_result = NotRun
    /\ IdlePair /\ IdleKlines /\ IdleOrch

NextListing == CallGetPairs \/ CallGetProducts

SpecListing == InitListing /\ [][NextListing]_vars

(***************************************************************************)
(* One klines fetch followed by the assembly of its result.                *)
(***************************************************************************)
CallGetHistoricalData ==
    /\ kresult = NotRun
    /\ kresult' = get_historical_data(kresponse)
    /\ UNCHANGED <<kresponse, series, pairVars, listVars, orchVars>>

CallBuildSeries ==
    /\ kresult.kind = "candles"
    /\ series = NotRun
    /\ series' = BuildSeries(kresult.candles)
    /\ UNCHANGED <<kresponse, kresult, pairVars, listVars, orchVars>>

InitKlines ==
    /\ kresponse \in KlineResponses
    /\ kresult = NotRun
    /\ series = NotRun
    /\ IdlePair /\ IdleListing /\ IdleOrch

NextKlines == CallGetHistoricalData \/ CallBuildSeries

SpecKlines == InitKlines /\ [][NextKlines]_vars

(***************************************************************************)
(* Properties.  The rules of a trading-pair record, as the specification   *)
(* words them: an asset is uppercase when it has no lowercase character.   *)
(***************************************************************************)
HasNonAlnum(v) == \E i \in 1..Len(v) : v[i] = "_"

HasLowercase(v) == \E i \in 1..Len(v) : v[i] = "a"

ViolatesSymbol(v) == Len(v) # 6 \/ HasNonAlnum(v)

ViolatesAsset(v) == HasLowercase(v) \/ Len(v) > 10

Constructed == presult # NotRun

\* C1: a record whose symbol is not 6 characters long or has a
\* non-alphanumeric character, or one of whose assets has a lowercase
\* character or more than 10 characters, is rejected with a ValidationError
\* and no PairModel value is produced.
C1_InvalidRecordRejected ==
    (Constructed /\ (ViolatesSymbol(rec.symbol) \/ ViolatesAsset(rec.baseAsset)
                        \/ ViolatesAsset(rec.quoteAsset)))
        => presult.kind = "ValidationError"

C1_Witness ==
    /\ Constructed
    /\ ~ViolatesSymbol(rec.symbol)
    /\ HasLowercase(rec.baseAsset) /\ Len(rec.baseAsset) = 10
    /\ ~ViolatesAsset(rec.quoteAsset)
    /\ presult.kind = "ValidationError"

\* C2: a record with a 6-character alphanumeric symbol and uppercase assets
\* of at most 10 characters is constructed, its three fields equal to the
\* inputs.
C2_ValidRecordConstructed ==
    (Constructed /\ ~ViolatesSymbol(rec.symbol) /\ ~ViolatesAsset(rec.baseAsset)
        /\ ~ViolatesAsset(rec.quoteAsset))
        => presult = [kind |-> "PairModel", symbol |-> rec.symbol,
                      base_asset |-> rec.baseAsset, quote_asset |-> rec.quoteAsset]

\* C9 as stated: a ValidationError reports the first violated rule only.
C9_SingleErrorReported ==
    (Constructed /\ presult.kind = "ValidationError") => Len(presult.errors) = 1

\* The first rule a field's value violates, in the order the rules are
\* applied to the field.
FirstSymbolRule(v) ==
    IF Len(v) < 6 THEN "min_length"
    ELSE IF Len(v) > 6 THEN "max_length"
    ELSE "Symbol must contain only alphanumeric characters"

FirstAssetRule(v) ==
    IF Len(v) > 10 THEN "max_length" ELSE "Asset symbols must be uppercase"

ExpectedErrors(r) ==
    (IF Len(r.symbol) # 6 \/ ~isalnum(r.symbol)
        THEN <<[loc |-> "symbol", msg |-> FirstSymbolRule(r.symbol)]>> ELSE <<>>)
    \o (IF Len(r.baseAsset) > 10 \/ ~isupper(r.baseAsset)
        THEN <<[loc |-> "base_asset", msg |-> FirstAssetRule(r.baseAsset)]>> ELSE <<>>)
    \o (IF Len(r.quoteAsset) > 10 \/ ~isupper(r.quoteAsset)
        THEN <<[loc |-> "quote_asset", msg |-> FirstAssetRule(r.quoteAsset)]>> ELSE <<>>)

\* C9 amended: validation stops at the first violated rule within each
\* field, and the ValidationError reports one error, that first rule, for
\* every field that violates a rule, in the order symbol, base_asset,
\* quote_asset.
C9_OneErrorPerField ==
    (Constructed /\ presult.kind = "ValidationError")
        => presult.errors = ExpectedErrors(rec)

C9_Witness ==
    /\ Constructed
    /\ Len(rec.symbol) = 7 /\ HasNonAlnum(rec.symbol)
    /\ Len(rec.baseAsset) = 11 /\ HasLowercase(rec.baseAsset)
    /\ presult.kind = "ValidationError"
    /\ Len(presult.errors) >= 2

BothListed == pairs_result # NotRun /\ products_result # NotRun

SymbolsOf(pairs) == [i \in 1..Len(pairs) |-> pairs[i].symbol]

\* C3 as stated: get_products returns the symbols of the pairs get_pairs
\* returns on the same response, and the two succeed or fail together.
C3_ProductsProjectPairs ==
    BothListed =>
        /\ (pairs_result.kind = "pairs") <=> (products_result.kind = "DataFrame")
        /\ pairs_result.kind = "pairs"
              => products_result.Product = SymbolsOf(pairs_result.pairs)

\* C3 amended: whenever get_pairs succeeds on a response, get_products
\* succeeds on it and returns the symbols of the returned pairs in the same
\* order; when get_pairs fails validation, get_products still succeeds and
\* returns the symbol of every record of the response; the two fail
\* together only on a transport failure.
C3_ProductsProjectValidPairs ==
    BothListed =>
        /\ pairs_result.kind = "pairs"
              => /\ products_result.kind = "DataFrame"
                 /\ products_result.Product = SymbolsOf(pairs_result.pairs)
        /\ pairs_result.kind = "ValidationError"
              => /\ products_result.kind = "DataFrame"
                 /\ products_result.Product =
                        [i \in 1..Len(response.body) |-> response.body[i].symbol]
        /\ (pairs_result.kind = "ConnectionError")
              <=> (products_result.kind = "ConnectionError")

C3_Witness ==
    /\ BothListed
    /\ pairs_result.kind = "pairs"
    /\ Len(pairs_result.pairs) = 2
    /\ pairs_result.pairs[1].symbol # pairs_result.pairs[2].symbol
    /\ products_result.kind = "DataFrame"

RecordInvalid(r) ==
    ViolatesSymbol(r.symbol) \/ ~isupper(r.baseAsset) \/ ~isupper(r.quoteAsset)
        \/ Len(r.baseAsset) > 10 \/ Len(r.quoteAsset) > 10

\* C6: get_pairs is all-or-nothing: with an invalid record in the response
\* it raises a ValidationError at the first invalid record and returns no
\* pairs; otherwise it returns one pair per record, in response order.
C6_PairsAllOrNothing ==
    (pairs_result # NotRun /\ response.kind = "json") =>
        LET body == response.body
            bad == {i \in 1..Len(body) : RecordInvalid(body[i])}
        IN  IF bad = {}
            THEN /\ pairs_result.kind = "pairs"
                 /\ Len(pairs_result.pairs) = Len(body)
                 /\ \A i \in 1..Len(body) :
                        /\ pairs_result.pairs[i].symbol = body[i].symbol
                        /\ pairs_result.pairs[i].base_asset = body[i].baseAsset
                        /\ pairs_result.pairs[i].quote_asset = body[i].quoteAsset
            ELSE /\ pairs_result.kind = "ValidationError"
                 /\ pairs_result.at \in bad
                 /\ \A i \in bad : pairs_result.at <= i

C6_Witness ==
    /\ pairs_result # NotRun
    /\ response.kind = "json"
    /\ Len(response.body) = 2
    /\ ~RecordInvalid(response.body[1])
    /\ RecordInvalid(response.body[2])
    /\ pairs_result.kind = "ValidationError"
    /\ pairs_result.at = 2

Malformed(candle) ==
    Len(candle) < 12 \/ \E p \in 1..12 : candle[p].t = "text"

\* C8: get_historical_data returns one candle per element of the response,
\* in response order, field p of a candle being the number at position p of
\* its element; a malformed element raises at the first such element and no
\* candle list is returned.
C8_CandlesPositional ==
    (kresult # NotRun /\ kresponse.kind = "json") =>
        LET body == kresponse.body
            bad == {i \in 1..Len(body) : Malformed(body[i])}
        IN  IF bad = {}
            THEN /\ kresult.kind = "candles"
                 /\ Len(kresult.candles) = Len(body)
                 /\ \A i \in 1..Len(body) : \A p \in 1..12 :
                        kresult.candles[i].fields[p] = body[i][p].v
            ELSE /\ kresult.kind # "candles"
                 /\ kresult.at \in bad
                 /\ \A i \in bad : kresult.at <= i

C8_Witness ==
    /\ kresult # NotRun
    /\ kresponse.kind = "json"
    /\ kresult.kind = "candles"
    /\ Len(kresult.candles) = 2
    /\ kresult.candles[1] # kresult.candles[2]

\* C5: the assembly returns, for every candle list including the empty
\* one, a frame with one row per candle in input order, indexed by the
\* time of open_time.
C5_BuildSeriesTotal ==
    series # NotRun =>
        /\ series.kind = "DataFrame"
        /\ series.rows = kresult.candles
        /\ Len(series.index) = Len(kresult.candles)

FetchEvents == {i \in 1..Len(events) : events[i].type = "fetch"}

WindowIndex(w) == CHOOSE k \in 1..3 : Windows[k] = w

\* C7: every fetch ends at the same end time and starts exactly 1, 30 or
\* 365 days (86 400 000, 2 592 000 000, 31 536 000 000 ms) before it.
C7_WindowStartsExact ==
    \A i \in FetchEvents :
        LET e == events[i] IN
        /\ e.endTime = events[CHOOSE j \in FetchEvents : \A k \in FetchEvents : j <= k].endTime
        /\ e.endTime.millis = e.startTime.millis
        /\ e.endTime.seconds - e.startTime.seconds
              = <<1, 30, 365>>[WindowIndex(e.window)] * 86400

Attempted == {<<events[i].symbol, events[i].window>> : i \in FetchEvents}

AllIterations ==
    {"BTCUSDT", "ETHUSDT", "LTCUSDT"} \X {"day", "month", "year"}

\* C4: a failure in one symbol/window iteration does not end the run: when
\* the script has stopped, every one of the 3 x 3 fetches has been attempted.
C4_FailureDoesNotAbort ==
    (pc \in {"done", "aborted"} /\ FetchEvents # {}) => Attempted = AllIterations

Key(e) == <<e.type, e.symbol, e.window>>

SymbolRun(sym) ==
    <<<<"fetch", sym, "day">>, <<"assemble", sym, "day">>,
      <<"fetch", sym, "month">>, <<"assemble", sym, "month">>,
      <<"fetch", sym, "year">>, <<"assemble", sym, "year">>,
      <<"render", sym, "day">>, <<"render", sym, "month">>,
      <<"render", sym, "year">>>>

ExpectedRun ==
    <<<<"products", "", "">>>> \o SymbolRun("BTCUSDT") \o SymbolRun("ETHUSDT")
        \o SymbolRun("LTCUSDT")

CountEvents(type) == Cardinality({i \in 1..Len(events) : events[i].type = type})

\* C10: the events of a run are a prefix of the one sequential order
\* (listing; per symbol the three fetches, each assembled before the next
\* is issued, then the three renders), at most one request is outstanding,
\* and a run without failure ends after exactly 9 fetches and 9 renders.
C10_SequentialRun ==
    /\ outstanding \in {0, 1}
    /\ outstanding = 1 <=> pc = "recv"
    /\ Len(events) <= Len(ExpectedRun)
    /\ \A i \in 1..Len(events) : Key(events[i]) = ExpectedRun[i]
    /\ pc = "done" =>
          /\ Len(events) = Len(ExpectedRun)
          /\ CountEvents("fetch") = 9
          /\ CountEvents("render") = 9

C10_Witness ==
    /\ pc = "done"
    /\ CountEvents("fetch") = 9
    /\ CountEvents("render") = 9

====
